---- MODULE Spec2Model ----
(***************************************************************************)
(* Recurrent layers of keras/layers/recurrent.py: the state kept by a      *)
(* Recurrent layer (SimpleRNN, GRU, LSTM), its build / call / reset_states *)
(* / compute_output_shape / compute_mask operations, and the attention     *)
(* step of AttLSTMCond and AttConditionalLSTMCond.                         *)
(*                                                                         *)
(* Tensors are integer valued.  A 2D tensor (samples, units) is a sequence *)
(* of rows, a 3D tensor (samples, timesteps, dim) a sequence of sequences  *)
(* of rows.  Python None is encoded by a record field (none, present) so   *)
(* that every variable keeps one type.  Dropout rates are counted in       *)
(* halves: 0 is 0.0, 1 is 0.5, 2 is 1.0.                                   *)
(***************************************************************************)
EXTENDS Integers, Sequences, FiniteSets, TLC

\* ---------------------------------------------------------------- bounds
BatchSize == 2      \* samples per batch
Units == 1          \* self.units
InputDim == 1       \* input_shape[2]
MaxT == 2           \* longest input sequence
MaxCell == 1        \* cap on the magnitude of an LSTM memory cell entry

Values == {0, 1}                        \* entries of inputs and given states
Kinds == {"SimpleRNN", "GRU", "LSTM"}
Implementations == {0, 1, 2}
DropoutRates == {0, 1, 2}               \* in halves
Seeds == 0 .. 4                         \* outcomes of the backend's generator

VARIABLES
    layer,      \* constructor arguments kept on the layer
    built,      \* self.built
    spec_batch, \* self.input_spec[0].shape[0]; 0 encodes None
    states,     \* self.states; <<>> while the attribute does not exist
    ret,        \* what the last operation returned or raised
    att         \* last AttLSTMCond / AttConditionalLSTMCond step

vars == <<layer, built, spec_batch, states, ret, att>>

\* ------------------------------------------------------- tensor helpers
RECURSIVE SumSeq(_)
SumSeq(s) == IF s = <<>> THEN 0 ELSE Head(s) + SumSeq(Tail(s))

\* F applied to the value of e (e is evaluated once)
With(e, F(_)) == CHOOSE y \in {F(v) : v \in {e}} : TRUE

Min(a, b) == IF a < b THEN a ELSE b
Max(a, b) == IF a > b THEN a ELSE b
Clip(v, lo, hi) == Min(hi, Max(lo, v))

\* K.zeros((rows, cols)), np.zeros((rows, cols))
zeros(rows, cols) == [i \in 1 .. rows |-> [j \in 1 .. cols |-> 0]]
\* K.ones_like / K.tile to (rows, cols)
ones(rows, cols) == [i \in 1 .. rows |-> [j \in 1 .. cols |-> 1]]

\* value.shape of a 2D tensor
shape2(t) == IF t = <<>> THEN <<0, 0>> ELSE <<Len(t), Len(t[1])>>

\* K.dot(a, w): (rows, n) . (n, m)
dot(a, w) ==
    [i \in 1 .. Len(a) |->
        [j \in 1 .. Len(w[1]) |->
            SumSeq([k \in 1 .. Len(w) |-> a[i][k] * w[k][j]])]]

\* K.bias_add(a, b); b = <<>> encodes bias None
bias_add(a, b) ==
    IF b = <<>> THEN a
    ELSE [i \in 1 .. Len(a) |-> [j \in 1 .. Len(a[i]) |-> a[i][j] + b[j]]]

\* elementwise a + b, a * b on 2D tensors
add2(a, b) == [i \in 1 .. Len(a) |-> [j \in 1 .. Len(a[i]) |-> a[i][j] + b[i][j]]]
mul2(a, b) == [i \in 1 .. Len(a) |-> [j \in 1 .. Len(a[i]) |-> a[i][j] * b[i][j]]]
map2(F(_), a) == [i \in 1 .. Len(a) |-> [j \in 1 .. Len(a[i]) |-> F(a[i][j])]]

\* columns lo..hi of a matrix, a[:, lo-1:hi]
cols(a, lo, hi) == [i \in 1 .. Len(a) |-> [j \in 1 .. (hi - lo + 1) |-> a[i][lo + j - 1]]]
\* entries lo..hi of a vector
slice(b, lo, hi) == IF b = <<>> THEN <<>> ELSE [j \in 1 .. (hi - lo + 1) |-> b[lo + j - 1]]

\* A dropout mask is either the scalar K.cast_to_floatx(1.) or a 2D tensor.
ScalarOne == [scalar |-> TRUE, m |-> <<>>]
MaskOf(m) == [scalar |-> FALSE, m |-> m]
\* a * mask with broadcasting of the scalar
mulmask(a, mask) == IF mask.scalar THEN a ELSE mul2(a, mask.m)

\* A state variable of the layer: None or a backend variable holding a tensor
NoneState == [none |-> TRUE, v |-> <<>>]
Var(t) == [none |-> FALSE, v |-> t]

\* ------------------------------------------------------------ the layer
nGates(kind) == CASE kind = "SimpleRNN" -> 1 [] kind = "GRU" -> 3 [] kind = "LSTM" -> 4

\* len(self.states) as set by build
nStates(kind) == IF kind = "LSTM" THEN 2 ELSE 1

\* 0 < rate < 1 with the rate counted in halves
Dropping(rate) == 0 < rate /\ rate < 2

\* Trained weights.  Every entry of the block of gate g has one value: the
\* input weight, the recurrent weight and the bias of that gate.
W(kind, g) == IF kind = "GRU" /\ g = 1 THEN -1 ELSE 1
U(kind, g) == IF kind = "GRU" /\ g \in {1, 2} THEN 1 ELSE -1
B(kind, g) == IF kind = "LSTM" /\ g = 2 THEN 1 ELSE 0

gateOf(j) == ((j - 1) \div Units) + 1

\* self.kernel: (input_dim, units * gates)
kernel(l) ==
    [i \in 1 .. InputDim |-> [j \in 1 .. Units * nGates(l.kind) |-> W(l.kind, gateOf(j))]]
\* self.recurrent_kernel: (units, units * gates)
recurrent_kernel(l) ==
    [i \in 1 .. Units |-> [j \in 1 .. Units * nGates(l.kind) |-> U(l.kind, gateOf(j))]]
\* self.bias: (units * gates,)
bias(l) == [j \in 1 .. Units * nGates(l.kind) |-> B(l.kind, gateOf(j))]

\* the slices build takes: kernel_z, recurrent_kernel_r, bias_h, ... (gate g)
kernel_g(l, g) == cols(kernel(l), (g - 1) * Units + 1, g * Units)
recurrent_kernel_g(l, g) == cols(recurrent_kernel(l), (g - 1) * Units + 1, g * Units)
bias_g(l, g) == slice(bias(l), (g - 1) * Units + 1, g * Units)

\* self.activation ('tanh') on integers: odd, monotone, saturating at +-1
activation(v) == Clip(v, -1, 1)
\* self.recurrent_activation ('hard_sigmoid') on integers: a gate is shut or open
recurrent_activation(v) == IF v >= 1 THEN 1 ELSE 0

\* K.dropout(ones, 0.5) as the k-th draw of a generator in state seed:
\* every entry is 0 (dropped) or 1 / (1 - 0.5) = 2 (kept)
dropout(seed, k, rows, ncols) ==
    [i \in 1 .. rows |->
        [j \in 1 .. ncols |-> IF (seed + k + i + j) % 5 \in {0, 1} THEN 0 ELSE 2]]

\* K.in_train_phase(dropped_inputs, ones, training)
in_train_phase(dropped, alt, training) == IF training THEN dropped ELSE alt

\* An entry of the list K.rnn hands to step: a state tensor or a constant
\* (a list of dropout masks)
StT(t) == [t |-> t, masks |-> <<>>]
StM(ms) == [t |-> <<>>, masks |-> ms]

\* get_constants of SimpleRNN, GRU and LSTM: [dp_mask, rec_dp_mask], each a
\* list with one mask per gate (SimpleRNN: the mask itself, kept as a list
\* of one).  The draws of the input masks are k0+1 .. k0+gates, those of the
\* recurrent masks follow.
get_constants(l, inputs, training, seed) ==
    LET n == nGates(l.kind)
        rows == Len(inputs)
        dp_mask ==
            IF l.implementation # 0 /\ Dropping(l.dropout)
            THEN [g \in 1 .. n |->
                    MaskOf(in_train_phase(dropout(seed, g, rows, InputDim),
                                          ones(rows, InputDim), training))]
            ELSE [g \in 1 .. n |-> ScalarOne]
        rec_dp_mask ==
            IF Dropping(l.recurrent_dropout)
            THEN [g \in 1 .. n |->
                    MaskOf(in_train_phase(dropout(seed, n + g, rows, Units),
                                          ones(rows, Units), training))]
            ELSE [g \in 1 .. n |-> ScalarOne]
    IN  <<StM(dp_mask), StM(rec_dp_mask)>>

StepResult_reversed(output, new_states, dp, rec) ==
    [output |-> output,
     states |-> [n \in 1 .. Len(new_states) |-> new_states[Len(new_states) + 1 - n]],
     dp |-> dp, rec |-> rec]

\* What step returns: the output, the new states, and (for the record kept of
\* a call) the masks it multiplied the inputs (dp) and the previous state (rec) by
StepResult(output, new_states, dp, rec) ==
    [output |-> output, states |-> new_states, dp |-> dp, rec |-> rec]

\* SimpleRNN.step; st[1] is states[0], st[2] and st[3] the two constants
SimpleRNN_step(l, inputs, st) ==
    LET h == IF l.implementation = 0 THEN inputs
             ELSE bias_add(dot(IF Dropping(l.dropout)
                               THEN mulmask(inputs, st[2].masks[1])
                               ELSE inputs,
                               kernel(l)),
                           bias(l))
        prev_output == IF Dropping(l.recurrent_dropout)
                       THEN mulmask(st[1].t, st[3].masks[1])
                       ELSE st[1].t
    IN  With(map2(activation, add2(h, dot(prev_output, recurrent_kernel(l)))),
             LAMBDA output :
                StepResult(output, <<output>>,
                           IF l.implementation # 0 /\ Dropping(l.dropout)
                           THEN <<st[2].masks[1]>> ELSE <<>>,
                           IF Dropping(l.recurrent_dropout)
                           THEN <<st[3].masks[1]>> ELSE <<>>))

one_minus(v) == 1 - v

\* GRU.step, implementation 2: the update gate z and the candidate hh
GRU_gates2(l, inputs, h_tm1, dp_mask, rec_dp_mask) ==
    LET u == Units IN
    With(bias_add(dot(mulmask(inputs, dp_mask[1]), kernel(l)), bias(l)), LAMBDA matrix_x :
    With(dot(mulmask(h_tm1, rec_dp_mask[1]), cols(recurrent_kernel(l), 1, 2 * u)),
         LAMBDA matrix_inner :
    With(map2(recurrent_activation,
              add2(cols(matrix_x, u + 1, 2 * u), cols(matrix_inner, u + 1, 2 * u))),
         LAMBDA r :
            [z |-> map2(recurrent_activation,
                        add2(cols(matrix_x, 1, u), cols(matrix_inner, 1, u))),
             hh |-> map2(activation,
                         add2(cols(matrix_x, 2 * u + 1, 3 * u),
                              dot(mulmask(mul2(r, h_tm1), rec_dp_mask[1]),
                                  cols(recurrent_kernel(l), 2 * u + 1, 3 * u))))])))

\* GRU.step, implementations 0 and 1
GRU_gates01(l, inputs, h_tm1, dp_mask, rec_dp_mask) ==
    LET u == Units
        x_z == IF l.implementation = 0 THEN cols(inputs, 1, u)
               ELSE bias_add(dot(mulmask(inputs, dp_mask[1]), kernel_g(l, 1)), bias_g(l, 1))
        x_r == IF l.implementation = 0 THEN cols(inputs, u + 1, 2 * u)
               ELSE bias_add(dot(mulmask(inputs, dp_mask[2]), kernel_g(l, 2)), bias_g(l, 2))
        x_h == IF l.implementation = 0 THEN cols(inputs, 2 * u + 1, 3 * u)
               ELSE bias_add(dot(mulmask(inputs, dp_mask[3]), kernel_g(l, 3)), bias_g(l, 3))
    IN  With(map2(recurrent_activation,
                  add2(x_r, dot(mulmask(h_tm1, rec_dp_mask[2]), recurrent_kernel_g(l, 2)))),
             LAMBDA r :
                [z |-> map2(recurrent_activation,
                            add2(x_z, dot(mulmask(h_tm1, rec_dp_mask[1]),
                                          recurrent_kernel_g(l, 1)))),
                 hh |-> map2(activation,
                             add2(x_h, dot(mulmask(mul2(r, h_tm1), rec_dp_mask[3]),
                                           recurrent_kernel_g(l, 3))))])

\* GRU.step
GRU_step(l, inputs, st) ==
    LET h_tm1 == st[1].t
        dp_mask == st[2].masks
        rec_dp_mask == st[3].masks
    IN  With(IF l.implementation = 2
             THEN GRU_gates2(l, inputs, h_tm1, dp_mask, rec_dp_mask)
             ELSE GRU_gates01(l, inputs, h_tm1, dp_mask, rec_dp_mask),
             LAMBDA g :
        With(add2(mul2(g.z, h_tm1), mul2(map2(one_minus, g.z), g.hh)), LAMBDA h :
            StepResult(h, <<h>>,
                       CASE l.implementation = 2 -> <<dp_mask[1]>>
                         [] l.implementation = 1 -> <<dp_mask[1], dp_mask[2], dp_mask[3]>>
                         [] OTHER -> <<>>,
                       IF l.implementation = 2
                       THEN <<rec_dp_mask[1], rec_dp_mask[1]>>
                       ELSE <<rec_dp_mask[1], rec_dp_mask[2], rec_dp_mask[3]>>)))

LSTM_pre_shared(l, inputs, h_tm1, dp_mask, rec_dp_mask) ==
    LET u == Units
        x_(g) == IF l.implementation = 0 THEN cols(inputs, (g - 1) * u + 1, g * u)
                 ELSE bias_add(dot(mulmask(inputs, dp_mask[1]), kernel_g(l, g)),
                               bias_g(l, g))
    IN  IF l.implementation = 2
        THEN With(bias_add(add2(dot(mulmask(inputs, dp_mask[1]), kernel(l)),
                                dot(mulmask(h_tm1, rec_dp_mask[1]), recurrent_kernel(l))),
                           bias(l)),
                  LAMBDA z : [g \in 1 .. 4 |-> cols(z, (g - 1) * u + 1, g * u)])
        ELSE [g \in 1 .. 4 |->
                add2(x_(g), dot(mulmask(h_tm1, rec_dp_mask[1]), recurrent_kernel_g(l, g)))]

\* LSTM.step: the pre-activations of the gates i, f, c, o
LSTM_pre(l, inputs, h_tm1, dp_mask, rec_dp_mask) ==
    LET u == Units
        \* implementations 0 and 1: x_i, x_f, x_c, x_o
        x_(g) == IF l.implementation = 0 THEN cols(inputs, (g - 1) * u + 1, g * u)
                 ELSE bias_add(dot(mulmask(inputs, dp_mask[g]), kernel_g(l, g)),
                               bias_g(l, g))
    IN  IF l.implementation = 2
        THEN With(bias_add(add2(dot(mulmask(inputs, dp_mask[1]), kernel(l)),
                                dot(mulmask(h_tm1, rec_dp_mask[1]), recurrent_kernel(l))),
                           bias(l)),
                  LAMBDA z : [g \in 1 .. 4 |-> cols(z, (g - 1) * u + 1, g * u)])
        ELSE [g \in 1 .. 4 |->
                add2(x_(g), dot(mulmask(h_tm1, rec_dp_mask[g]), recurrent_kernel_g(l, g)))]

\* LSTM.step
LSTM_step(l, inputs, st) ==
    LET h_tm1 == st[1].t
        c_tm1 == st[2].t
        dp_mask == st[3].masks
        rec_dp_mask == st[4].masks
    IN  With(LSTM_pre(l, inputs, h_tm1, dp_mask, rec_dp_mask), LAMBDA z :
        With(add2(mul2(map2(recurrent_activation, z[2]), c_tm1),
                  mul2(map2(recurrent_activation, z[1]), map2(activation, z[3]))),
             LAMBDA c :
        With(mul2(map2(recurrent_activation, z[4]), map2(activation, c)), LAMBDA h :
            StepResult(h, <<h, c>>,
                       CASE l.implementation = 2 -> <<dp_mask[1]>>
                         [] l.implementation = 1 ->
                                <<dp_mask[1], dp_mask[2], dp_mask[3], dp_mask[4]>>
                         [] OTHER -> <<>>,
                       IF l.implementation = 2
                       THEN <<rec_dp_mask[1]>>
                       ELSE <<rec_dp_mask[1], rec_dp_mask[2],
                              rec_dp_mask[3], rec_dp_mask[4]>>))))

\* self.step of the layer's class
step(l, inputs, st) ==
    CASE l.kind = "SimpleRNN" -> SimpleRNN_step(l, inputs, st)
      [] l.kind = "GRU" -> GRU_step(l, inputs, st)
      [] l.kind = "LSTM" -> LSTM_step(l, inputs, st)

\* ------------------------------------------------- input preprocessing
expanded_dropout_matrix_per_step(rows, T, seed, k) ==
    [i \in 1 .. rows |-> [t \in 1 .. T |-> dropout(seed, k + t, rows, InputDim)[i]]]

\* K.repeat(K.dropout(ones, dropout), timesteps): the dropout matrix of the
\* k-th draw at every timestep, shape (rows, timesteps, input_dim)
expanded_dropout_matrix(rows, T, seed, k) ==
    LET dropout_matrix == dropout(seed, k, rows, InputDim)
    IN  [i \in 1 .. rows |-> [t \in 1 .. T |-> dropout_matrix[i]]]

\* elementwise product of two 3D tensors
mul3(a, b) ==
    [i \in 1 .. Len(a) |-> [t \in 1 .. Len(a[i]) |->
        [d \in 1 .. Len(a[i][t]) |-> a[i][t][d] * b[i][t][d]]]]

\* _time_distributed_dense: y . w + b for every temporal slice y of x, after
\* the dropout of the k-th draw (in the training phase only)
_time_distributed_dense(x, w, b, rate, training, seed, k) ==
    LET T == Len(x[1])
        xd == IF Dropping(rate)
              THEN in_train_phase(mul3(x, expanded_dropout_matrix(Len(x), T, seed, k)),
                                  x, training)
              ELSE x
    IN  [i \in 1 .. Len(x) |-> [t \in 1 .. T |-> bias_add(dot(<<xd[i][t]>>, w), b)[1]]]

\* K.concatenate(parts, axis=2)
RECURSIVE FlatRow(_)
FlatRow(rows) == IF rows = <<>> THEN <<>> ELSE Head(rows) \o FlatRow(Tail(rows))
concatenate2(parts) ==
    [i \in 1 .. Len(parts[1]) |-> [t \in 1 .. Len(parts[1][i]) |->
        FlatRow([g \in 1 .. Len(parts) |-> parts[g][i][t]])]]

\* the draw used by the time-distributed dense layer of gate g
tdDraw(l, g) == 2 * nGates(l.kind) + g

\* preprocess_input of SimpleRNN, GRU and LSTM
preprocess_input(l, inputs, training, seed) ==
    IF l.implementation = 0
    THEN concatenate2([g \in 1 .. nGates(l.kind) |->
            _time_distributed_dense(inputs, kernel_g(l, g), bias_g(l, g), l.dropout,
                                    training, seed, tdDraw(l, g))])
    ELSE inputs

\* the expanded dropout matrices preprocess_input multiplies the inputs by
preprocess_masks(l, inputs, training, seed) ==
    IF l.implementation = 0 /\ Dropping(l.dropout) /\ training
    THEN [g \in 1 .. nGates(l.kind) |->
            expanded_dropout_matrix(Len(inputs), Len(inputs[1]), seed, tdDraw(l, g))]
    ELSE <<>>

get_initial_state_ones(l, st, inputs) ==
    [n \in 1 .. Len(st) |-> ones(Len(inputs), Units)]

\* Recurrent.get_initial_state: one all-zero (samples, units) tensor per state
get_initial_state(l, st, inputs) ==
    LET zeros_like == [i \in 1 .. Len(inputs) |-> [t \in 1 .. Len(inputs[i]) |->
                          [d \in 1 .. Len(inputs[i][t]) |-> 0]]]
        summed == [i \in 1 .. Len(inputs) |->
                      SumSeq([t \in 1 .. Len(zeros_like[i]) |-> SumSeq(zeros_like[i][t])])]
        initial_state == [i \in 1 .. Len(inputs) |-> [j \in 1 .. Units |-> summed[i]]]
    IN  [n \in 1 .. Len(st) |-> initial_state]

\* ------------------------------------------------------------ the scan
\* the t-th temporal slice of a 3D tensor
timeslice(x, t) == [i \in 1 .. Len(x) |-> x[i][t]]

NoMask == [none |-> TRUE, m |-> <<>>]
MaskT(m) == [none |-> FALSE, m |-> m]

\* rows of new where the mask is set, of old elsewhere (K.switch)
switch(mask, t, new, old) ==
    IF mask.none THEN new
    ELSE [i \in 1 .. Len(new) |-> IF mask.m[i][t] THEN new[i] ELSE old[i]]

\* K.rnn from timestep t on: st are the states, out_tm1 the previous output,
\* acc the outputs and the masks seen so far
RECURSIVE rnn_loop(_, _, _, _, _, _, _, _)
rnn_loop(l, x, t, st, constants, mask, out_tm1, acc) ==
    IF t > Len(x[1])
    THEN [last_output |-> out_tm1, outs |-> acc.outs, states |-> st,
          dp |-> acc.dp, rec |-> acc.rec]
    ELSE With(step(l, timeslice(x, t), [n \in 1 .. Len(st) |-> StT(st[n])] \o constants),
              LAMBDA r :
                With(switch(mask, t, r.output, out_tm1),
                     LAMBDA out :
                        rnn_loop(l, x, t + 1,
                                 [n \in 1 .. Len(st) |-> switch(mask, t, r.states[n], st[n])],
                                 constants, mask, out,
                                 [outs |-> Append(acc.outs, out),
                                  dp |-> Append(acc.dp, r.dp),
                                  rec |-> Append(acc.rec, r.rec)])))

\* K.rnn(self.step, inputs, initial_states, mask=mask, constants=constants)
rnn(l, x, initial_states, mask, constants) ==
    With(rnn_loop(l, x, 1, initial_states, constants, mask, zeros(Len(x), Units),
                  [outs |-> <<>>, dp |-> <<>>, rec |-> <<>>]),
         LAMBDA r :
            [last_output |-> r.last_output,
             outputs |-> [i \in 1 .. Len(x) |-> [t \in 1 .. Len(x[1]) |-> r.outs[t][i]]],
             states |-> r.states, dp |-> r.dp, rec |-> r.rec])

\* ------------------------------------------------------ what is returned
\* a returned tensor with its rank (2: (samples, units), 3: (samples, time, units))
T2(v) == [rank |-> 2, v |-> v]
T3(v) == [rank |-> 3, v |-> v]

\* The record of an operation: op names it, err the exception it raised ("" if
\* none); a Python value that is a tensor or a list of tensors is (isList, items)
\* with one item when it is no list.
\* changed tells whether reset_states altered a state variable.
NoRet ==
    [op |-> "", err |-> "", isList |-> FALSE, items |-> <<>>, shapes |-> <<>>,
     masks |-> <<>>, xshape |-> <<>>, arg |-> <<>>,
     noInit |-> FALSE, given |-> <<>>, init |-> <<>>, final |-> <<>>,
     outputs |-> <<>>, updates |-> <<>>,
     constants |-> <<>>, dp |-> <<>>, rec |-> <<>>, td |-> <<>>, changed |-> FALSE]

Raise(op, e) == [NoRet EXCEPT !.op = op, !.err = e]

call_initial_state_stored_first(l, st, inputs, initial_state) ==
    IF inputs.isList THEN inputs.extra
    ELSE IF l.stateful THEN [n \in 1 .. Len(st) |-> st[n].v]
    ELSE IF ~initial_state.none THEN initial_state.v
    ELSE get_initial_state(l, st, inputs.x)

\* Recurrent.call, the choice of the initial states of the scan: the tail of
\* the input list, else the keyword argument, else the stored states of a
\* stateful layer, else zeros
call_initial_state(l, st, inputs, initial_state) ==
    IF inputs.isList THEN inputs.extra
    ELSE IF ~initial_state.none THEN initial_state.v
    ELSE IF l.stateful THEN [n \in 1 .. Len(st) |-> st[n].v]
    ELSE get_initial_state(l, st, inputs.x)

call_updates_none(l, new_states) == <<>>

\* Recurrent.call, the updates handed to add_update: (self.states[i], states[i])
call_updates(l, new_states) ==
    IF l.stateful
    THEN [n \in 1 .. Len(new_states) |-> [var |-> n, val |-> new_states[n]]]
    ELSE <<>>

call_return_reversed(l, last_output, outputs, new_states) ==
    LET output == IF l.return_sequences THEN T3(outputs) ELSE T2(last_output)
        k == Len(new_states)
    IN  IF l.return_state
        THEN [isList |-> TRUE,
              items |-> <<output>> \o [n \in 1 .. k |-> T2(new_states[k + 1 - n])]]
        ELSE [isList |-> FALSE, items |-> <<output>>]

\* Recurrent.call, the value returned: output, or [output] + states
call_return(l, last_output, outputs, new_states) ==
    LET output == IF l.return_sequences THEN T3(outputs) ELSE T2(last_output)
    IN  IF l.return_state
        THEN [isList |-> TRUE,
              items |-> <<output>> \o [n \in 1 .. Len(new_states) |-> T2(new_states[n])]]
        ELSE [isList |-> FALSE, items |-> <<output>>]

call_state_count_error_late(l, init) ==
    [Raise("call", "ValueError") EXCEPT !.init = init, !.final = init,
                                        !.updates = call_updates(l, init)]

\* Recurrent.call, len(initial_state) != len(self.states): ValueError is raised
\* where nothing has been computed or registered yet
call_state_count_error(l, init) == Raise("call", "ValueError")

\* Recurrent.call.  inputs is (isList, x, extra): a tensor x, or the list
\* [x] + extra.  mask is (isList, items).  initial_state is (none, v).
\* training is the learning phase get_constants and preprocess_input see
\* (call passes them training=None).
call(l, st, inputs, mask, training, initial_state, seed) ==
    LET x == inputs.x
        init == call_initial_state(l, st, inputs, initial_state)
        m == mask.items[1]
    IN  IF Len(init) # Len(st) THEN call_state_count_error(l, init)
        ELSE
        With(get_constants(l, x, training, seed), LAMBDA constants :
        With(rnn(l, preprocess_input(l, x, training, seed), init, m, constants),
             LAMBDA r :
        With(call_return(l, r.last_output, r.outputs, r.states), LAMBDA out :
            [NoRet EXCEPT
                !.op = "call",
                !.isList = out.isList,
                !.items = out.items,
                !.xshape = <<Len(x), Len(x[1]), Len(x[1][1])>>,
                !.init = init,
                !.outputs = r.outputs,
                !.final = r.states,
                !.updates = call_updates(l, r.states),
                !.constants = constants,
                !.dp = r.dp,
                !.rec = r.rec,
                !.td = preprocess_masks(l, x, training, seed)])))

\* Recurrent.__call__.  initial_state is (none, isList, v) with v a list of
\* (keras, t): t a tensor, keras whether it carries _keras_history.
__call__(l, st, x, mask, training, initial_state, seed) ==
    IF initial_state.none
    THEN call(l, st, [isList |-> FALSE, x |-> x, extra |-> <<>>],
              [isList |-> FALSE, items |-> <<mask>>], training,
              [none |-> TRUE, v |-> <<>>], seed)
    ELSE
    LET is_keras_tensor == initial_state.v[1].keras
        tensors == [n \in 1 .. Len(initial_state.v) |-> initial_state.v[n].t]
    IN  IF \E n \in 1 .. Len(initial_state.v) : initial_state.v[n].keras # is_keras_tensor
        THEN Raise("call", "ValueError")
        ELSE IF is_keras_tensor
        THEN call(l, st, [isList |-> TRUE, x |-> x, extra |-> tensors],
                  [isList |-> TRUE,
                   items |-> <<mask>> \o [n \in 1 .. Len(tensors) |-> NoMask]],
                  training, [none |-> TRUE, v |-> <<>>], seed)
        ELSE call(l, st, [isList |-> FALSE, x |-> x, extra |-> <<>>],
                  [isList |-> FALSE, items |-> <<mask>>], training,
                  [none |-> FALSE, v |-> tensors], seed)

\* the state variables after the backend has run the registered updates
run_updates(st, upd) ==
    [n \in 1 .. Len(st) |->
        IF \E k \in 1 .. Len(upd) : upd[k].var = n
        THEN Var(upd[CHOOSE k \in 1 .. Len(upd) : upd[k].var = n].val)
        ELSE st[n]]

RECURSIVE set_values_first(_, _, _, _)
set_values_first(st, values, index, batch_size) ==
    IF index > Len(values) \/ index > Len(st) THEN [err |-> "", states |-> st]
    ELSE IF shape2(values[index]) # <<batch_size, Units>>
    THEN [err |-> "ValueError", states |-> st]
    ELSE set_values_first([st EXCEPT ![index] = Var(values[1])], values, index + 1,
                          batch_size)

\* Recurrent.reset_states.  arg is (none, isList, v): None, one array or a
\* list of arrays.  Gives the exception raised and self.states afterwards.
RECURSIVE set_values(_, _, _, _)
set_values(st, values, index, batch_size) ==
    IF index > Len(values) \/ index > Len(st) THEN [err |-> "", states |-> st]
    ELSE IF shape2(values[index]) # <<batch_size, Units>>
    THEN [err |-> "ValueError", states |-> st]
    ELSE set_values([st EXCEPT ![index] = Var(values[index])], values, index + 1,
                    batch_size)

reset_states_keep(l, batch_size, st, arg) ==
    IF ~l.stateful THEN [err |-> "AttributeError", states |-> st]
    ELSE IF batch_size = 0 THEN [err |-> "ValueError", states |-> st]
    ELSE IF st[1].none
    THEN [err |-> "", states |-> [n \in 1 .. Len(st) |-> Var(zeros(batch_size, Units))]]
    ELSE IF arg.none
    THEN [err |-> "", states |-> st]
    ELSE IF Len(arg.v) # Len(st) THEN [err |-> "ValueError", states |-> st]
    ELSE set_values(st, arg.v, 1, batch_size)

reset_states(l, batch_size, st, arg) ==
    IF ~l.stateful THEN [err |-> "AttributeError", states |-> st]
    ELSE IF batch_size = 0 THEN [err |-> "ValueError", states |-> st]
    ELSE IF st[1].none
    THEN [err |-> "", states |-> [n \in 1 .. Len(st) |-> Var(zeros(batch_size, Units))]]
    ELSE IF arg.none
    THEN [err |-> "", states |-> [n \in 1 .. Len(st) |-> Var(zeros(batch_size, Units))]]
    ELSE IF Len(arg.v) # Len(st) THEN [err |-> "ValueError", states |-> st]
    ELSE set_values(st, arg.v, 1, batch_size)

NoArg == [none |-> TRUE, isList |-> FALSE, v |-> <<>>]

\* build of SimpleRNN, GRU and LSTM, for an input of batch size batch
\* (0: unknown): the input spec's batch size, self.states and self.built
build(l, batch) ==
    LET batch_size == IF l.stateful THEN batch ELSE 0
        st0 == [n \in 1 .. nStates(l.kind) |-> NoneState]
        r == reset_states(l, batch_size, st0, NoArg)
    IN  IF l.stateful
        THEN [err |-> r.err, spec_batch |-> batch_size, states |-> r.states,
              built |-> r.err = ""]
        ELSE [err |-> "", spec_batch |-> batch_size, states |-> st0, built |-> TRUE]

compute_output_shape_nostate(l, st, input_shape) ==
    LET shape == input_shape.items[1]
        output_shape == IF l.return_sequences
                        THEN <<shape[1], shape[2], Units>>
                        ELSE <<shape[1], Units>>
    IN  IF l.return_state
        THEN [isList |-> TRUE, items |-> <<output_shape>>]
        ELSE [isList |-> FALSE, items |-> <<output_shape>>]

\* Recurrent.compute_output_shape; input_shape is (isList, items), a shape
\* is <<batch, timesteps, dim>> with 0 for None
compute_output_shape(l, st, input_shape) ==
    LET shape == input_shape.items[1]
        output_shape == IF l.return_sequences
                        THEN <<shape[1], shape[2], Units>>
                        ELSE <<shape[1], Units>>
        state_shape == [n \in 1 .. Len(st) |-> <<shape[1], Units>>]
    IN  IF l.return_state
        THEN [isList |-> TRUE, items |-> <<output_shape>> \o state_shape]
        ELSE [isList |-> FALSE, items |-> <<output_shape>>]

compute_mask_always(l, st, mask) ==
    LET output_mask == mask.items[1]
        state_mask == [n \in 1 .. Len(st) |-> NoMask]
    IN  IF l.return_state
        THEN [isList |-> TRUE, items |-> <<output_mask>> \o state_mask]
        ELSE [isList |-> FALSE, items |-> <<output_mask>>]

\* Recurrent.compute_mask; mask is (isList, items)
compute_mask(l, st, mask) ==
    LET m == mask.items[1]
        output_mask == IF l.return_sequences THEN m ELSE NoMask
        state_mask == [n \in 1 .. Len(st) |-> NoMask]
    IN  IF l.return_state
        THEN [isList |-> TRUE, items |-> <<output_mask>> \o state_mask]
        ELSE [isList |-> FALSE, items |-> <<output_mask>>]

\* ------------------------------------------------------------- inputs
\* batches of BatchSize sequences of T feature vectors; a sequence alternates
\* between the two values, and so do the first steps of successive samples
InputsOf(T) ==
    {[i \in 1 .. BatchSize |-> [t \in 1 .. T |-> [d \in 1 .. InputDim |-> (v + i + t) % 2]]] :
        v \in Values}

\* (rows, units) tensors: one value per sample, alternating between samples
TensorsOf(rows) ==
    {[i \in 1 .. rows |-> [j \in 1 .. Units |-> (v + i) % 2]] : v \in Values}

\* the state tensor handed to a call: ones for the odd samples
GivenTensors == {[i \in 1 .. BatchSize |-> [j \in 1 .. Units |-> i % 2]]}

\* lists of one or two state tensors, the same tensor in every place
GivenLists == {[n \in 1 .. k |-> t] : k \in 1 .. 2, t \in GivenTensors}

\* initial_state arguments of __call__: None, Keras tensors, backend tensors,
\* and a mix of both
InitialStates ==
    {[none |-> TRUE, isList |-> FALSE, v |-> <<>>]}
    \cup {[none |-> FALSE, isList |-> TRUE,
           v |-> [n \in 1 .. Len(g) |-> [keras |-> k, t |-> g[n]]]] :
            g \in GivenLists, k \in BOOLEAN}
    \cup {[none |-> FALSE, isList |-> TRUE,
           v |-> <<[keras |-> TRUE, t |-> zeros(BatchSize, Units)],
                   [keras |-> FALSE, t |-> zeros(BatchSize, Units)]>>]}

\* timestep masks of right-padded batches: None, or the last step of the
\* first sample masked out
CallMasks(T) ==
    {NoMask} \cup
    {MaskT([i \in 1 .. BatchSize |-> [t \in 1 .. T |-> t < T \/ i # 1]])}

ResetPairs ==
    UNION {{<<t, t>>, <<t, zeros(BatchSize, Units)>>, <<t, zeros(BatchSize - 1, Units)>>} :
            t \in TensorsOf(BatchSize)}

\* states arguments of reset_states: None, one array, a list of arrays, of
\* the state's shape or one row short
ResetArgs ==
    {NoArg}
    \cup {[none |-> FALSE, isList |-> FALSE, v |-> <<t>>] :
            t \in TensorsOf(BatchSize) \cup {zeros(BatchSize - 1, Units)}}
    \cup {[none |-> FALSE, isList |-> TRUE, v |-> <<p[1]>>] : p \in ResetPairs}
    \cup {[none |-> FALSE, isList |-> TRUE, v |-> p] : p \in ResetPairs}

\* input shapes: <<batch, timesteps, dim>>, 0 for None
Shapes == {<<b, T, InputDim>> : b \in {0, BatchSize}, T \in {0} \cup 1 .. MaxT}
StateShapes == {<<b, Units>> : b \in {0, BatchSize}}

Phases(l) == IF Dropping(l.dropout) \/ Dropping(l.recurrent_dropout)
             THEN BOOLEAN ELSE {FALSE}
SeedsOf(training) == IF training THEN Seeds ELSE {0}

Layers ==
    [kind : Kinds, stateful : BOOLEAN, return_sequences : BOOLEAN,
     return_state : BOOLEAN, implementation : Implementations,
     dropout : DropoutRates, recurrent_dropout : DropoutRates]

NoAtt == [op |-> ""]

\* every entry of the tensors within the cap
Within(ts, cap) ==
    \A n \in 1 .. Len(ts) : \A i \in 1 .. Len(ts[n]) : \A j \in 1 .. Len(ts[n][i]) :
        ts[n][i][j] \in -cap .. cap

\* ------------------------------------------------------------ actions
\* The layer is built with its first input (Layer.__call__ calls build while
\* self.built is false).
Build(batch) ==
    /\ ~built
    /\ LET b == build(layer, batch) IN
        /\ built' = b.built
        /\ spec_batch' = b.spec_batch
        /\ states' = b.states
        /\ ret' = Raise("build", b.err)
    /\ UNCHANGED <<layer, att>>

\* One batch through the layer: __call__ and call lay out the computation and
\* register the state updates, the backend runs both on the batch.
Call(x, mask, training, initial_state, seed) ==
    /\ built
    /\ \E r \in {__call__(layer, states, x, mask, training, initial_state, seed)} :
        /\ Within(r.final, MaxCell)
        /\ ret' = [r EXCEPT
                    !.noInit = initial_state.none,
                    !.given = [n \in 1 .. Len(initial_state.v) |-> initial_state.v[n].t]]
        /\ states' = run_updates(states, r.updates)
    /\ UNCHANGED <<layer, built, spec_batch, att>>

ResetStates(arg) ==
    /\ states # <<>>
    /\ LET r == reset_states(layer, spec_batch, states, arg) IN
        /\ states' = r.states
        /\ ret' = [Raise("reset_states", r.err) EXCEPT
                    !.given = arg.v, !.noInit = arg.none,
                    !.changed = (r.states # states)]
    /\ UNCHANGED <<layer, built, spec_batch, att>>

ComputeOutputShape(input_shape) ==
    /\ built
    /\ LET r == compute_output_shape(layer, states, input_shape) IN
        ret' = [NoRet EXCEPT !.op = "compute_output_shape", !.isList = r.isList,
                             !.shapes = r.items, !.arg = input_shape.items]
    /\ UNCHANGED <<layer, built, spec_batch, states, att>>

ComputeMask(mask) ==
    /\ built
    /\ LET r == compute_mask(layer, states, mask) IN
        ret' = [NoRet EXCEPT !.op = "compute_mask", !.isList = r.isList,
                             !.masks = r.items, !.arg = mask.items]
    /\ UNCHANGED <<layer, built, spec_batch, states, att>>

BuildStep == \E batch \in {0, BatchSize} : Build(batch)

CallStep ==
    \E T \in {1, MaxT} : \E x \in InputsOf(T) : \E mask \in CallMasks(T) :
    \E training \in Phases(layer) : \E seed \in SeedsOf(training) :
    \E initial_state \in InitialStates :
        Call(x, mask, training, initial_state, seed)

ResetStatesStep == \E arg \in ResetArgs : ResetStates(arg)

ComputeOutputShapeStep ==
    \E shape \in Shapes :
        \/ ComputeOutputShape([isList |-> FALSE, items |-> <<shape>>])
        \/ \E k \in 1 .. 2 :
            ComputeOutputShape([isList |-> TRUE,
                items |-> <<shape>> \o [n \in 1 .. k |-> <<shape[1], Units>>]])

ComputeMaskStep ==
    \E T \in 1 .. MaxT : \E m \in CallMasks(T) :
        \/ ComputeMask([isList |-> FALSE, items |-> <<m>>])
        \/ ComputeMask([isList |-> TRUE, items |-> <<m, NoMask>>])

\* Layers without dropout that return the last output alone, stateful or not:
\* their calls and resets in any order.
Init ==
    /\ layer \in {l \in Layers :
                    /\ l.dropout = 0 /\ l.recurrent_dropout = 0 /\ l.implementation = 2
                    /\ ~l.return_sequences /\ ~l.return_state}
    /\ built = FALSE
    /\ spec_batch = 0
    /\ states = <<>>
    /\ ret = NoRet
    /\ att = NoAtt

Next ==
    \/ BuildStep
    \/ CallStep
    \/ ResetStatesStep

Spec == Init /\ [][Next]_vars

\* --------------------------------------- what a layer returns and announces
\* Non-stateful layers with every combination of return_sequences and
\* return_state: their calls, compute_output_shape and compute_mask.
InitOutputs ==
    /\ layer \in {l \in Layers :
                    /\ l.dropout = 0 /\ l.recurrent_dropout = 0 /\ l.implementation = 2
                    /\ ~l.stateful}
    /\ built = FALSE
    /\ spec_batch = 0
    /\ states = <<>>
    /\ ret = NoRet
    /\ att = NoAtt

NextOutputs ==
    \/ BuildStep
    \/ CallStep
    \/ ComputeOutputShapeStep
    \/ ComputeMaskStep

SpecOutputs == InitOutputs /\ [][NextOutputs]_vars

\* ------------------------------------------- calls of layers with dropout
\* Layers of every cell kind, implementation and pair of dropout rates, called
\* on unmasked batches in the test and the training phase.
InitDropout ==
    /\ layer \in {l \in Layers :
                    ~l.stateful /\ l.return_sequences /\ ~l.return_state}
    /\ built = FALSE
    /\ spec_batch = 0
    /\ states = <<>>
    /\ ret = NoRet
    /\ att = NoAtt

DropoutCallStep ==
    \E T \in {1, MaxT} : \E x \in InputsOf(T) :
    \E training \in Phases(layer) : \E seed \in SeedsOf(training) :
        Call(x, NoMask, training, [none |-> TRUE, isList |-> FALSE, v |-> <<>>], seed)

NextDropout ==
    \/ BuildStep
    \/ DropoutCallStep

SpecDropout == InitDropout /\ [][NextDropout]_vars

\* ------------------------------------------------ the attention layers
\* AttLSTMCond and AttConditionalLSTMCond, without dropout (every dropout mask
\* is the scalar 1).  A context is [sample][position][feature]; its mask is
\* [sample][position] with entries 0 and 1.
MaxCtx == 2
ContextDim == 1
CtxValues == {-1, 0, 1}
AttKinds == {"AttLSTMCond", "AttConditionalLSTMCond"}
mask_value == 0

\* the weights build adds; att_units = units
attention_recurrent_kernel == [i \in 1 .. Units |-> [a \in 1 .. Units |-> 1]]
attention_context_kernel == [d \in 1 .. ContextDim |-> [a \in 1 .. Units |-> 1]]
attention_context_wa == [a \in 1 .. Units |-> 1]
bias_ba == [a \in 1 .. Units |-> 0]
\* one entry per context position (shape context_steps)
bias_ca(context_steps) == [i \in 1 .. context_steps |-> 0]
\* self.kernel of the attention layers: (context_dim, 4 * units)
att_kernel == [d \in 1 .. ContextDim |-> [j \in 1 .. 4 * Units |-> W("LSTM", gateOf(j))]]
att_recurrent_kernel == recurrent_kernel([kind |-> "LSTM"])
att_bias == bias([kind |-> "LSTM"])

RECURSIVE Pow2(_)
Pow2(n) == IF n <= 0 THEN 1 ELSE 2 * Pow2(n - 1)
RECURSIVE MinSeq(_)
MinSeq(q) == IF Len(q) = 1 THEN q[1] ELSE Min(Head(q), MinSeq(Tail(q)))

\* K.softmax over the positions of every sample, with 2 for the base of the
\* exponential: the weight of position i is num[i] / den
softmax(e) ==
    [n \in 1 .. Len(e) |->
        LET num == [i \in 1 .. Len(e[n]) |-> Pow2(e[n][i] - MinSeq(e[n]))]
        IN  [num |-> num, den |-> SumSeq(num)]]

\* get_constants of the attention layers, states[7..9]: the projected context,
\* the context and the context mask (from the context when none is given)
att_get_constants(context, mask_context) ==
    [pctx |-> [n \in 1 .. Len(context) |->
                bias_add(dot(context[n], attention_context_kernel), bias_ba)],
     context |-> context,
     mask_context |->
        IF mask_context.none
        THEN [n \in 1 .. Len(context) |-> [i \in 1 .. Len(context[n]) |->
                IF SumSeq(context[n][i]) # mask_value THEN 1 ELSE 0]]
        ELSE mask_context.m]

mask_rows_skipped(mask, t) == t

\* mask_context[:, :, None] * t: the rows of the masked positions zeroed
mask_rows(mask, t) ==
    [n \in 1 .. Len(t) |-> [i \in 1 .. Len(t[n]) |-> [d \in 1 .. Len(t[n][i]) |->
        mask[n][i] * t[n][i][d]]]]

\* The attention model of step: alphas, and ctx_ as numerators over alphas[n].den.
\* The mask get_constants hands over always has ndim 2.
attention_model(consts, h) ==
    LET mask == consts.mask_context
        S == 1 .. Len(consts.context)
        P(n) == 1 .. Len(consts.context[n])
    IN  With(mask_rows(mask, consts.context), LAMBDA context :
        With(mask_rows(mask, consts.pctx), LAMBDA pctx0 :
        With(dot(h, attention_recurrent_kernel), LAMBDA p_state_ :
        With([n \in S |-> [i \in P(n) |-> [a \in 1 .. Units |->
                activation(pctx0[n][i][a] + p_state_[n][a])]]],
             LAMBDA pctx_ :
        With([n \in S |-> [i \in P(n) |->
                mask[n][i] *
                (SumSeq([a \in 1 .. Units |-> pctx_[n][i][a] * attention_context_wa[a]])
                 + bias_ca(Len(consts.context[n]))[i])]], LAMBDA e :
        With(softmax(e), LAMBDA alphas :
            [alphas |-> alphas,
             ctx_ |-> [n \in S |-> [d \in 1 .. ContextDim |->
                        SumSeq([i \in P(n) |-> context[n][i][d] * alphas[n].num[i]])]]]))))))

\* The LSTM of an attention step on one sample: z is base + ctx_ . kernel with
\* base an integer row and ctx_ numerators over den; h and c are returned as
\* numerators over den.
att_lstm(base, ctx_, den, c_tm1) ==
    LET u == Units IN
    With([j \in 1 .. 4 * u |->
            base[j] * den + SumSeq([d \in 1 .. ContextDim |-> ctx_[d] * att_kernel[d][j]])],
         LAMBDA z :
    With([j \in 1 .. u |->
            (IF z[u + j] >= den THEN 1 ELSE 0) * c_tm1[j] * den
            + (IF z[j] >= den THEN 1 ELSE 0) * Clip(z[2 * u + j], -den, den)],
         LAMBDA c :
            [h |-> [j \in 1 .. u |->
                    (IF z[3 * u + j] >= den THEN 1 ELSE 0) * Clip(c[j], -den, den)],
             c |-> c]))

\* AttLSTMCond.step
AttLSTMCond_step(x, h_tm1, c_tm1, consts) ==
    With(attention_model(consts, h_tm1), LAMBDA a :
        With(bias_add(add2(x, dot(h_tm1, att_recurrent_kernel)), att_bias), LAMBDA base :
        With([n \in 1 .. Len(x) |->
                att_lstm(base[n], a.ctx_[n], a.alphas[n].den, c_tm1[n])], LAMBDA r :
            [h |-> [n \in 1 .. Len(x) |-> r[n].h], c |-> [n \in 1 .. Len(x) |-> r[n].c],
             ctx_ |-> a.ctx_, alphas |-> a.alphas])))

\* AttConditionalLSTMCond.step: LSTM_1 on the input, the attention model on
\* its output, then the LSTM on the attended context
AttConditionalLSTMCond_step(x, h_tm1, c_tm1, consts) ==
    LET u == Units IN
    With(bias_add(add2(x, dot(h_tm1, att_recurrent_kernel)), att_bias), LAMBDA z_ :
    With(add2(mul2(map2(recurrent_activation, cols(z_, u + 1, 2 * u)), c_tm1),
              mul2(map2(recurrent_activation, cols(z_, 1, u)),
                   map2(activation, cols(z_, 2 * u + 1, 3 * u)))), LAMBDA c_ :
    With(mul2(map2(recurrent_activation, cols(z_, 3 * u + 1, 4 * u)),
              map2(activation, c_)), LAMBDA h_ :
    With(attention_model(consts, h_), LAMBDA a :
    With(bias_add(dot(h_, att_recurrent_kernel), att_bias), LAMBDA base :
    With([n \in 1 .. Len(x) |->
            att_lstm(base[n], a.ctx_[n], a.alphas[n].den, c_[n])], LAMBDA r :
        [h |-> [n \in 1 .. Len(x) |-> r[n].h], c |-> [n \in 1 .. Len(x) |-> r[n].c],
         ctx_ |-> a.ctx_, alphas |-> a.alphas]))))))

att_step(l, x, h_tm1, c_tm1, consts) ==
    IF l.kind = "AttLSTMCond" THEN AttLSTMCond_step(x, h_tm1, c_tm1, consts)
    ELSE AttConditionalLSTMCond_step(x, h_tm1, c_tm1, consts)

\* contexts of P positions: the even samples hold the negated features of the
\* odd ones; and the masks of right-padded contexts
Contexts(P) ==
    {[n \in 1 .. BatchSize |-> [i \in 1 .. P |-> [d \in 1 .. ContextDim |->
        IF n % 2 = 1 THEN f[i][d] ELSE -f[i][d]]]] :
        f \in [1 .. P -> [1 .. ContextDim -> CtxValues]]}
ContextMasks(P) ==
    {[none |-> TRUE, m |-> <<>>]} \cup
    {[none |-> FALSE, m |-> [n \in 1 .. BatchSize |-> [i \in 1 .. P |->
                                IF i <= len[n] THEN 1 ELSE 0]]] :
        len \in [1 .. BatchSize -> 1 .. P]}
\* state and input tensors with one value throughout
Uniform(ncols, vals) == {[n \in 1 .. BatchSize |-> [j \in 1 .. ncols |-> v]] : v \in vals}

AttLayers ==
    {[kind |-> k, stateful |-> FALSE, return_sequences |-> FALSE, return_state |-> FALSE,
      implementation |-> 2, dropout |-> 0, recurrent_dropout |-> 0] : k \in AttKinds}

\* call computes the constants of the scan from the context and its mask
AttGetConstants(context, mask_context) ==
    /\ att.op = ""
    /\ att' = [op |-> "get_constants", given_mask |-> mask_context,
               constants |-> att_get_constants(context, mask_context)]
    /\ UNCHANGED <<layer, built, spec_batch, states, ret>>

\* one step of the scan, with the states the scan hands in
AttStep(x, h_tm1, c_tm1) ==
    /\ att.op # ""
    /\ \E r \in {att_step(layer, x, h_tm1, c_tm1, att.constants)} :
        att' = [op |-> "step", given_mask |-> att.given_mask, constants |-> att.constants,
                x |-> x, h_tm1 |-> h_tm1, c_tm1 |-> c_tm1,
                h |-> r.h, c |-> r.c, ctx_ |-> r.ctx_, alphas |-> r.alphas]
    /\ UNCHANGED <<layer, built, spec_batch, states, ret>>

AttGetConstantsStep ==
    \E P \in 1 .. MaxCtx : \E context \in Contexts(P) : \E mask_context \in ContextMasks(P) :
        AttGetConstants(context, mask_context)

AttStepStep ==
    \E x \in Uniform(4 * Units, {0, 1}) : \E h_tm1 \in Uniform(Units, {-1, 0, 1}) :
    \E c_tm1 \in Uniform(Units, {-1, 0, 1}) :
        AttStep(x, h_tm1, c_tm1)

InitAtt ==
    /\ layer \in AttLayers
    /\ built = FALSE
    /\ spec_batch = 0
    /\ states = <<>>
    /\ ret = NoRet
    /\ att = NoAtt

NextAtt ==
    \/ AttGetConstantsStep
    \/ AttStepStep

SpecAtt == InitAtt /\ [][NextAtt]_vars

\* ------------------------------------------------------------- claims
ValuesOf(st) == [n \in 1 .. Len(st) |-> st[n].v]
IsZero(ts) ==
    \A n \in 1 .. Len(ts) : \A i \in 1 .. Len(ts[n]) : \A j \in 1 .. Len(ts[n][i]) :
        ts[n][i][j] = 0
CallDone == ret.op = "call" /\ ret.err = ""
\* shape of a returned tensor
ShapeOf(t) == IF t.rank = 3 THEN <<Len(t.v), Len(t.v[1]), Len(t.v[1][1])>>
              ELSE <<Len(t.v), Len(t.v[1])>>

\* C1: every call of a stateful layer registers, for each state variable i, the
\* update that writes the scan's final state i into it, the state variables
\* hold those final states after the batch, and a call without initial_state
\* starts from the stored states: from the final states of the call before it
\* when two calls follow each other.
C1_StatefulCarriesState ==
    [][(layer.stateful /\ ret'.op = "call" /\ ret'.err = "") =>
        /\ ret'.updates = [n \in 1 .. Len(states) |-> [var |-> n, val |-> ret'.final[n]]]
        /\ states' = [n \in 1 .. Len(states) |-> Var(ret'.final[n])]
        /\ ret'.noInit => ret'.init = ValuesOf(states)
        /\ (ret'.noInit /\ CallDone) => ret'.init = ret.final]_vars

C1_Witness ==
    /\ layer.stateful /\ CallDone /\ ret.noInit
    /\ ~IsZero(ret.init) /\ ret.final # ret.init
    /\ \E i, k \in 1 .. BatchSize : ret.init[1][i] # ret.init[1][k]

\* C2: a call of a non-stateful layer without initial_state starts the scan from
\* one all-zero (samples, units) tensor per layer state, registers no update,
\* and the layer's states stay as build left them.
C2_NonStatefulStartsFromZeros ==
    (built /\ ~layer.stateful) =>
        /\ states = [n \in 1 .. nStates(layer.kind) |-> NoneState]
        /\ CallDone => ret.updates = <<>>
        /\ (CallDone /\ ret.noInit) =>
            ret.init = [n \in 1 .. nStates(layer.kind) |-> zeros(ret.xshape[1], Units)]

C2_Witness ==
    ~layer.stateful /\ CallDone /\ ret.noInit /\ ~IsZero(ret.final)

\* C3: a call given an initial_state (Keras tensors or backend tensors) starts
\* the scan from exactly those tensors, also on a stateful layer whose stored
\* states differ.
C3_GivenInitialStateIsUsed ==
    (CallDone /\ ~ret.noInit) => ret.init = ret.given

C3_Witness ==
    /\ layer.stateful /\ CallDone /\ ~ret.noInit
    /\ ~IsZero(ret.given) /\ Len(ret.given) = 2

\* C4: reset_states() without argument on a built stateful layer leaves every
\* state variable all-zero with shape (batch_size, units) and keeps their number.
C4_ResetZeroes ==
    (ret.op = "reset_states" /\ ret.err = "" /\ ret.noInit) =>
        states = [n \in 1 .. nStates(layer.kind) |-> Var(zeros(BatchSize, Units))]

C4_Witness ==
    /\ ret.op = "reset_states" /\ ret.err = "" /\ ret.noInit
    /\ built /\ ret.changed /\ Len(states) = 2

\* C5: reset_states(states=v) that raises nothing leaves state variable i
\* equal to v[i] for every i.
C5_ResetToValues ==
    (ret.op = "reset_states" /\ ret.err = "" /\ ~ret.noInit) =>
        /\ Len(ret.given) = Len(states)
        /\ states = [n \in 1 .. Len(states) |-> Var(ret.given[n])]

C5_Witness ==
    /\ ret.op = "reset_states" /\ ret.err = "" /\ ~ret.noInit
    /\ Len(ret.given) = 2 /\ ret.given[1] # ret.given[2]
    /\ ret.changed

\* C6: call returns the full output sequence if return_sequences and the last
\* output otherwise; if return_state it returns the list of that output
\* followed by the final states in state order, else the output alone.
C6_CallReturn ==
    CallDone =>
        LET T == ret.xshape[2]
            output == IF layer.return_sequences THEN T3(ret.outputs)
                      ELSE T2([i \in 1 .. Len(ret.outputs) |-> ret.outputs[i][T]])
        IN  /\ ret.items[1] = output
            /\ ret.isList = layer.return_state
            /\ ret.items = IF layer.return_state
                           THEN <<output>> \o [n \in 1 .. Len(ret.final) |-> T2(ret.final[n])]
                           ELSE <<output>>

C6_Witness ==
    /\ CallDone /\ layer.return_state /\ ~layer.return_sequences
    /\ Len(ret.items) = 3 /\ ret.xshape[2] = MaxT
    /\ \E i \in 1 .. BatchSize : ret.outputs[i][1] # ret.outputs[i][MaxT]

\* C7: compute_output_shape gives (batch, timesteps, units) if return_sequences
\* and (batch, units) otherwise, read from the first shape of a list; with
\* return_state it gives a list of that shape and one (batch, units) per state.
\* Its result for the shape of a call's input is the list of the shapes of the
\* tensors the call returns.
C7_OutputShape ==
    /\ ret.op = "compute_output_shape" =>
        LET shape == ret.arg[1]
            out == IF layer.return_sequences THEN <<shape[1], shape[2], Units>>
                   ELSE <<shape[1], Units>>
        IN  /\ ret.isList = layer.return_state
            /\ ret.shapes = IF layer.return_state
                            THEN <<out>> \o [n \in 1 .. nStates(layer.kind) |->
                                                <<shape[1], Units>>]
                            ELSE <<out>>
    /\ CallDone =>
        LET r == compute_output_shape(layer, states,
                                      [isList |-> FALSE, items |-> <<ret.xshape>>])
        IN  /\ r.isList = ret.isList
            /\ r.items = [k \in 1 .. Len(ret.items) |-> ShapeOf(ret.items[k])]

C7_Witness ==
    /\ ret.op = "compute_output_shape" /\ layer.return_state /\ layer.return_sequences
    /\ Len(ret.arg) = 3 /\ Len(ret.shapes) = 3 /\ ret.arg[1][1] = BatchSize

\* C8: compute_mask gives the first input mask if return_sequences and None
\* otherwise; with return_state it gives the list of that mask followed by
\* one None per layer state.
C8_OutputMask ==
    ret.op = "compute_mask" =>
        LET out == IF layer.return_sequences THEN ret.arg[1] ELSE NoMask
        IN  /\ ret.isList = layer.return_state
            /\ ret.masks = IF layer.return_state
                           THEN <<out>> \o [n \in 1 .. nStates(layer.kind) |-> NoMask]
                           ELSE <<out>>

C8_Witness ==
    /\ ret.op = "compute_mask" /\ layer.return_state /\ ~layer.return_sequences
    /\ ~ret.arg[1].none /\ Len(ret.arg) = 2 /\ Len(ret.masks) = 3

\* the entries of a dropout mask
EntriesOf(mask) == UNION {{mask.m[i][j] : j \in 1 .. Len(mask.m[i])} : i \in 1 .. Len(mask.m)}

AttStepDone == att.op = "step"

\* C10: at every step of an attention layer the weights alphas are
\* non-negative and sum to 1 over the context positions of each sample, and
\* ctx_ is the sum of the context's positions weighted by alphas.
C10_AttentionWeightedSum ==
    AttStepDone =>
        \A n \in 1 .. BatchSize :
            LET P == 1 .. Len(att.constants.context[n])
                a == att.alphas[n]
            IN  /\ a.den > 0
                /\ \A i \in P : a.num[i] >= 0
                /\ SumSeq(a.num) = a.den
                /\ \A d \in 1 .. ContextDim :
                    att.ctx_[n][d] =
                        SumSeq([i \in P |-> att.constants.context[n][i][d] * a.num[i]])

\* the context with the features of every masked position replaced by v
Repadded(context, mask, v) ==
    [n \in 1 .. Len(context) |-> [i \in 1 .. Len(context[n]) |->
        IF mask[n][i] = 1 THEN context[n][i] ELSE [d \in 1 .. ContextDim |-> v]]]

\* the fractions a / p and b / q are equal, entry by entry of a row
SameRow(a, p, b, q) == \A j \in 1 .. Len(a) : a[j] * q = b[j] * p

\* C11: a step of AttLSTMCond on a context that differs from the one used
\* only in the features stored at masked positions (same mask, same inputs and
\* states) gives the same ctx_, h and c.
C11_MaskedContentIgnored ==
    (AttStepDone /\ layer.kind = "AttLSTMCond") =>
        \A v \in CtxValues :
        \A other \in {att_get_constants(
                        Repadded(att.constants.context, att.constants.mask_context, v),
                        att.given_mask)} :
            other.mask_context = att.constants.mask_context =>
                \A r \in {att_step(layer, att.x, att.h_tm1, att.c_tm1, other)} :
                \A n \in 1 .. BatchSize :
                \A p \in {att.alphas[n].den} : \A q \in {r.alphas[n].den} :
                    /\ SameRow(att.ctx_[n], p, r.ctx_[n], q)
                    /\ SameRow(att.h[n], p, r.h[n], q)
                    /\ SameRow(att.c[n], p, r.c[n], q)

C11_Witness ==
    /\ AttStepDone /\ layer.kind = "AttLSTMCond" /\ ~att.given_mask.none
    /\ \E n \in 1 .. BatchSize : \E i \in 1 .. Len(att.constants.context[n]) :
        /\ att.constants.mask_context[n][i] = 0
        /\ att.constants.context[n][i][1] # 0
        /\ att.ctx_[n][1] # 0 /\ att.h[n][1] # 0

\* ------------------------------------------ get_config and its round trip
\* Python values that are not integers or booleans carry a tag: None, a
\* string, a function object (an activation), an instance of an initializer /
\* regularizer / constraint class, or the dict such an instance serializes to.
None == [t |-> "None"]
Str(s) == [t |-> "str", v |-> s]
Fn(name) == [t |-> "function", name |-> name]
Instance(class_name, config) == [t |-> "instance", class_name |-> class_name, config |-> config]
Dict(class_name, config) == [t |-> "dict", class_name |-> class_name, config |-> config]

\* a keyword argument, or the default of the signature when it is not passed
Arg(kwargs, name, default) == IF name \in DOMAIN kwargs THEN kwargs[name] ELSE default

\* the keyword arguments a signature does not name (**kwargs)
Rest(kwargs, names) == [k \in DOMAIN kwargs \ names |-> kwargs[k]]

\* activations.get: None is linear, a name is looked up, a callable is kept
activations_get(identifier) ==
    IF identifier.t = "None" THEN Fn("linear")
    ELSE IF identifier.t = "str" THEN Fn(identifier.v)
    ELSE identifier

\* activations.serialize: the function's __name__
activations_serialize(fn) == Str(fn.name)

\* the instance a registered name of initializers / regularizers / constraints
\* stands for
named_instance(name) ==
    IF name = "glorot_uniform" THEN Instance("VarianceScaling", "fan_avg")
    ELSE IF name = "orthogonal" THEN Instance("Orthogonal", "gain_1")
    ELSE IF name = "zeros" THEN Instance("Zeros", "")
    ELSE IF name = "ones" THEN Instance("Ones", "")
    ELSE IF name = "l2" THEN Instance("L1L2", "l2_1")
    ELSE Instance("MaxNorm", "max_value_2")

\* initializers.get / regularizers.get / constraints.get: None stays None, a
\* name or a serialized dict is deserialized, an instance is kept
objects_get(identifier) ==
    IF identifier.t = "None" THEN None
    ELSE IF identifier.t = "str" THEN named_instance(identifier.v)
    ELSE IF identifier.t = "dict" THEN Instance(identifier.class_name, identifier.config)
    ELSE identifier

\* initializers.serialize / regularizers.serialize / constraints.serialize
objects_serialize(instance) ==
    IF instance.t = "None" THEN None ELSE Dict(instance.class_name, instance.config)

\* min(1., max(0., dropout)), rates in halves
clamp_rate(rate) == IF rate < 0 THEN 0 ELSE IF rate > 2 THEN 2 ELSE rate

\* Layer.__init__: only the keyword arguments it knows are accepted
Layer__init__(kwargs) ==
    IF DOMAIN kwargs \subseteq {"name", "trainable"}
    THEN [err |-> "", name |-> Arg(kwargs, "name", "recurrent_1"),
          trainable |-> Arg(kwargs, "trainable", TRUE)]
    ELSE [err |-> "TypeError"]

\* Layer.get_config
Layer_get_config(l) == [name |-> l.name, trainable |-> l.trainable]

RecurrentArgs ==
    {"return_sequences", "return_state", "go_backwards", "stateful", "unroll",
     "implementation"}

Recurrent__init__(kwargs) ==
    Layer__init__(Rest(kwargs, RecurrentArgs)) @@
    [return_sequences |-> Arg(kwargs, "return_sequences", FALSE),
     return_state |-> Arg(kwargs, "return_state", FALSE),
     go_backwards |-> Arg(kwargs, "go_backwards", FALSE),
     stateful |-> Arg(kwargs, "stateful", FALSE),
     unroll |-> Arg(kwargs, "unroll", FALSE),
     implementation |-> Arg(kwargs, "implementation", 2),
     dropout |-> 0,
     recurrent_dropout |-> 0]

Recurrent_get_config_short(l) ==
    [return_sequences |-> l.return_sequences,
     return_state |-> l.return_state,
     go_backwards |-> l.go_backwards,
     stateful |-> l.stateful,
     unroll |-> l.unroll] @@ Layer_get_config(l)

Recurrent_get_config(l) ==
    [return_sequences |-> l.return_sequences,
     return_state |-> l.return_state,
     go_backwards |-> l.go_backwards,
     stateful |-> l.stateful,
     unroll |-> l.unroll,
     implementation |-> l.implementation] @@ Layer_get_config(l)

SimpleRNNArgs ==
    {"units", "activation", "use_bias", "kernel_initializer",
     "recurrent_initializer", "bias_initializer", "kernel_regularizer",
     "recurrent_regularizer", "bias_regularizer", "activity_regularizer",
     "kernel_constraint", "recurrent_constraint", "bias_constraint", "dropout",
     "recurrent_dropout"}

\* the attributes SimpleRNN, GRU and LSTM all set from their arguments
cell__init__(kwargs) ==
    [units |-> kwargs.units,
     activation |-> activations_get(Arg(kwargs, "activation", Str("tanh"))),
     use_bias |-> Arg(kwargs, "use_bias", TRUE),
     kernel_initializer |->
        objects_get(Arg(kwargs, "kernel_initializer", Str("glorot_uniform"))),
     recurrent_initializer |->
        objects_get(Arg(kwargs, "recurrent_initializer", Str("orthogonal"))),
     bias_initializer |-> objects_get(Arg(kwargs, "bias_initializer", Str("zeros"))),
     kernel_regularizer |-> objects_get(Arg(kwargs, "kernel_regularizer", None)),
     recurrent_regularizer |-> objects_get(Arg(kwargs, "recurrent_regularizer", None)),
     bias_regularizer |-> objects_get(Arg(kwargs, "bias_regularizer", None)),
     activity_regularizer |-> objects_get(Arg(kwargs, "activity_regularizer", None)),
     kernel_constraint |-> objects_get(Arg(kwargs, "kernel_constraint", None)),
     recurrent_constraint |-> objects_get(Arg(kwargs, "recurrent_constraint", None)),
     bias_constraint |-> objects_get(Arg(kwargs, "bias_constraint", None)),
     dropout |-> clamp_rate(Arg(kwargs, "dropout", 0)),
     recurrent_dropout |-> clamp_rate(Arg(kwargs, "recurrent_dropout", 0))]

\* the entries the get_config of SimpleRNN, GRU and LSTM all write
cell_get_config(l) ==
    [units |-> l.units,
     activation |-> activations_serialize(l.activation),
     use_bias |-> l.use_bias,
     kernel_initializer |-> objects_serialize(l.kernel_initializer),
     recurrent_initializer |-> objects_serialize(l.recurrent_initializer),
     bias_initializer |-> objects_serialize(l.bias_initializer),
     kernel_regularizer |-> objects_serialize(l.kernel_regularizer),
     recurrent_regularizer |-> objects_serialize(l.recurrent_regularizer),
     bias_regularizer |-> objects_serialize(l.bias_regularizer),
     activity_regularizer |-> objects_serialize(l.activity_regularizer),
     kernel_constraint |-> objects_serialize(l.kernel_constraint),
     recurrent_constraint |-> objects_serialize(l.recurrent_constraint),
     bias_constraint |-> objects_serialize(l.bias_constraint),
     dropout |-> l.dropout,
     recurrent_dropout |-> l.recurrent_dropout]

SimpleRNN__init__(kwargs) ==
    cell__init__(kwargs) @@ Recurrent__init__(Rest(kwargs, SimpleRNNArgs))

SimpleRNN_get_config(l) == cell_get_config(l) @@ Recurrent_get_config(l)

GRUArgs == SimpleRNNArgs \cup {"recurrent_activation"}

GRU__init__(kwargs) ==
    [recurrent_activation |->
        activations_get(Arg(kwargs, "recurrent_activation", Str("hard_sigmoid")))] @@
    cell__init__(kwargs) @@ Recurrent__init__(Rest(kwargs, GRUArgs))

GRU_get_config(l) ==
    [recurrent_activation |-> activations_serialize(l.recurrent_activation)] @@
    cell_get_config(l) @@ Recurrent_get_config(l)

LSTMArgs == GRUArgs \cup {"unit_forget_bias"}

LSTM__init__(kwargs) ==
    [recurrent_activation |->
        activations_get(Arg(kwargs, "recurrent_activation", Str("hard_sigmoid"))),
     unit_forget_bias |-> Arg(kwargs, "unit_forget_bias", TRUE)] @@
    cell__init__(kwargs) @@ Recurrent__init__(Rest(kwargs, LSTMArgs))

LSTM_get_config(l) ==
    [recurrent_activation |-> activations_serialize(l.recurrent_activation),
     unit_forget_bias |-> l.unit_forget_bias] @@
    cell_get_config(l) @@ Recurrent_get_config(l)

\* cls(**kwargs); the class is kept next to the attributes
construct(cls, kwargs) ==
    [kind |-> cls] @@
    (IF cls = "Recurrent" THEN Recurrent__init__(kwargs)
     ELSE IF cls = "SimpleRNN" THEN SimpleRNN__init__(kwargs)
     ELSE IF cls = "GRU" THEN GRU__init__(kwargs)
     ELSE LSTM__init__(kwargs))

get_config(l) ==
    IF l.kind = "Recurrent" THEN Recurrent_get_config(l)
    ELSE IF l.kind = "SimpleRNN" THEN SimpleRNN_get_config(l)
    ELSE IF l.kind = "GRU" THEN GRU_get_config(l)
    ELSE LSTM_get_config(l)

\* Layer.from_config: cls(**config)
from_config(cls, config) == construct(cls, config)

\* the signature of a class, its own arguments and those of Recurrent
ConstructorArgs(cls) ==
    RecurrentArgs \cup
    (IF cls = "Recurrent" THEN {}
     ELSE IF cls = "SimpleRNN" THEN SimpleRNNArgs
     ELSE IF cls = "GRU" THEN GRUArgs
     ELSE LSTMArgs)

\* keyword arguments a caller passes: the flags of Recurrent, rates inside and
\* outside [0, 1], and for the other arguments either the defaults or a value
\* that differs from the default
ConfigKwargs(cls) ==
    LET
        OtherKwargs ==
            {<<>>,
             [activation |-> None, use_bias |-> FALSE,
              kernel_initializer |-> Str("ones"),
              recurrent_initializer |-> named_instance("zeros"),
              bias_initializer |-> Dict("Ones", ""),
              kernel_regularizer |-> Str("l2"), bias_regularizer |-> named_instance("l2"),
              recurrent_constraint |-> Str("max_norm"),
              go_backwards |-> TRUE, unroll |-> TRUE, return_state |-> TRUE,
              trainable |-> FALSE, name |-> "encoder"],
             [activation |-> Fn("relu"), recurrent_regularizer |-> Dict("L1L2", "l2_1"),
              activity_regularizer |-> Str("l2"), kernel_constraint |-> Str("max_norm"),
              bias_constraint |-> Dict("MaxNorm", "max_value_2")]}
        GateKwargs ==
            IF cls = "GRU" THEN {<<>>, [recurrent_activation |-> Str("sigmoid")]}
            ELSE IF cls = "LSTM"
            THEN {<<>>, [recurrent_activation |-> Str("sigmoid"), unit_forget_bias |-> FALSE]}
            ELSE {<<>>}
    IN
    {[k \in DOMAIN o \cap (ConstructorArgs(cls) \cup {"name", "trainable"}) |-> o[k]] @@ g @@ f @@ u
        : o \in OtherKwargs, g \in GateKwargs,
          f \in {[return_sequences |-> rs, stateful |-> sf, implementation |-> i]
                    : rs \in BOOLEAN, sf \in BOOLEAN, i \in Implementations},
          u \in IF cls = "Recurrent" THEN {<<>>}
                ELSE {[units |-> Units, dropout |-> d, recurrent_dropout |-> rd]
                        : d \in {-1, 1, 3}, rd \in {0, 2}}}

InitConfig ==
    /\ \E cls \in {"Recurrent", "SimpleRNN", "GRU", "LSTM"} : \E kwargs \in ConfigKwargs(cls) :
            layer = construct(cls, kwargs)
    /\ built = FALSE
    /\ spec_batch = 0
    /\ states = <<>>
    /\ ret = [op |-> "", err |-> ""]
    /\ att = NoAtt

\* config = layer.get_config()
GetConfigStep ==
    /\ ret' = [op |-> "get_config", err |-> "", config |-> get_config(layer)]
    /\ UNCHANGED <<layer, built, spec_batch, states, att>>

\* layer = layer.__class__.from_config(config), config from the last get_config
FromConfigStep ==
    /\ ret.op = "get_config"
    /\ \E r \in {from_config(layer.kind, ret.config)} :
        /\ layer' = IF r.err = "" THEN r ELSE layer
        /\ ret' = [op |-> "from_config", err |-> r.err, config |-> ret.config,
                   original |-> layer]
    /\ UNCHANGED <<built, spec_batch, states, att>>

NextConfig == GetConfigStep \/ FromConfigStep

SpecConfig == InitConfig /\ [][NextConfig]_vars

\* C12: get_config of Recurrent, SimpleRNN, GRU and LSTM has an entry for every
\* constructor argument, under the argument's name and holding the value stored
\* on the layer; the layer rebuilt from the config has the same hyperparameters
\* and its get_config equals the config it was rebuilt from.
C12_ConfigRoundTrip ==
    LET Serialized == {"kernel_initializer", "recurrent_initializer", "bias_initializer",
                       "kernel_regularizer", "recurrent_regularizer", "bias_regularizer",
                       "activity_regularizer", "kernel_constraint",
                       "recurrent_constraint", "bias_constraint"}
        \* the stored attribute, written by the serializer of its module where
        \* it is an object
        Stored(l, a) ==
            IF a \in {"activation", "recurrent_activation"}
            THEN activations_serialize(l[a])
            ELSE IF a \in Serialized THEN objects_serialize(l[a])
            ELSE l[a]
    IN
    /\ ret.op = "get_config" =>
            \A a \in ConstructorArgs(layer.kind) :
                a \in DOMAIN ret.config /\ ret.config[a] = Stored(layer, a)
    /\ ret.op = "from_config" =>
            /\ ret.err = ""
            /\ layer = ret.original
            /\ get_config(layer) = ret.config

C12_Witness ==
    /\ ret.op = "from_config"
    /\ layer.kind = "LSTM"
    /\ layer.implementation = 1
    /\ layer.dropout = 2
    /\ layer.activation = Fn("linear")
    /\ layer.kernel_regularizer # None
    /\ ~layer.unit_forget_bias

\* ------------------------------------------ which mask each gate applies
\* C13: with implementation 2 every step of GRU and LSTM applies one input
\* mask and one recurrent mask (index 0 of dp_mask and of rec_dp_mask) to all
\* gates, so its result does not depend on the other masks; with
\* implementation 1 gate g applies the masks of index g, so its value does not
\* depend on the masks of the other gates (GRU: z reads index 0, the candidate
\* reads index 2 and, through r, index 1).
C13_MasksPerGate ==
    LET \* the masks of the gates outside G replaced by no mask
        Only(masks, G) ==
            [g \in 1 .. Len(masks) |-> IF g \in G THEN masks[g] ELSE ScalarOne]
    IN
    (CallDone /\ layer.kind \in {"GRU", "LSTM"} /\ layer.implementation # 0) =>
        \A dp_mask \in {ret.constants[1].masks} :
        \A rec_dp_mask \in {ret.constants[2].masks} :
        \A x \in {ones(ret.xshape[1], InputDim)} :
        \A h \in {ones(ret.xshape[1], Units)} :
        \A st \in {[n \in 1 .. nStates(layer.kind) |-> StT(h)]} :
            IF layer.implementation = 2
            THEN /\ \A t \in 1 .. ret.xshape[2] :
                        /\ \A k \in 1 .. Len(ret.dp[t]) : ret.dp[t][k] = dp_mask[1]
                        /\ \A k \in 1 .. Len(ret.rec[t]) : ret.rec[t][k] = rec_dp_mask[1]
                 /\ \A a \in {step(layer, x, st \o ret.constants)} :
                    \A b \in {step(layer, x, st \o <<StM(Only(dp_mask, {1})),
                                                     StM(Only(rec_dp_mask, {1}))>>)} :
                        a.output = b.output /\ a.states = b.states
            ELSE /\ \A t \in 1 .. ret.xshape[2] :
                        ret.dp[t] = dp_mask /\ ret.rec[t] = rec_dp_mask
                 /\ layer.kind = "LSTM" =>
                        \A g \in 1 .. 4 :
                            LSTM_pre(layer, x, h, Only(dp_mask, {g}), Only(rec_dp_mask, {g}))[g]
                                = LSTM_pre(layer, x, h, dp_mask, rec_dp_mask)[g]
                 /\ layer.kind = "GRU" =>
                        \A a \in {GRU_gates01(layer, x, h, dp_mask, rec_dp_mask)} :
                            /\ GRU_gates01(layer, x, h, Only(dp_mask, {1}),
                                           Only(rec_dp_mask, {1})).z = a.z
                            /\ GRU_gates01(layer, x, h, Only(dp_mask, {2, 3}),
                                           Only(rec_dp_mask, {2, 3})).hh = a.hh

\* a training call of an LSTM with implementation 1 whose four input masks and
\* four recurrent masks are pairwise different tensors
C13_Witness ==
    /\ CallDone /\ layer.kind = "LSTM" /\ layer.implementation = 1
    /\ ret.xshape[2] = MaxT
    /\ \A g, k \in 1 .. 4 :
        g # k => /\ ret.constants[1].masks[g] # ret.constants[1].masks[k]
                 /\ ret.constants[2].masks[g] # ret.constants[2].masks[k]
    /\ ~ret.constants[1].masks[1].scalar
    /\ ret.dp[MaxT] = ret.constants[1].masks

\* C14: a call that ends up with a number of initial states different from the
\* number of layer states raises ValueError; no scan has run (no outputs, no
\* final states, no constants drawn), no update is registered and the state
\* variables are left as they were.
C14_StateCountMismatchRaises ==
    [][(ret'.op = "call" /\ ~ret'.noInit /\ Len(ret'.given) # Len(states)) =>
        /\ ret'.err = "ValueError"
        /\ ret'.outputs = <<>> /\ ret'.final = <<>> /\ ret'.items = <<>>
        /\ ret'.constants = <<>>
        /\ ret'.updates = <<>>
        /\ states' = states]_vars

\* a stateful LSTM holding non-zero states was called with a single initial state
C14_Witness ==
    /\ ret.op = "call" /\ ret.err = "ValueError"
    /\ layer.kind = "LSTM" /\ layer.stateful
    /\ Len(ret.given) = 1 /\ Len(states) = 2
    /\ ~states[1].none /\ ~IsZero(ValuesOf(states))

\* ------------------------------------------------- what a step returns
\* C15: a step of SimpleRNN, GRU and LSTM returns as output the first of the
\* states it returns, and as many states as build declared (1, 1 and 2), in
\* the order it reads them: for LSTM the first is h = o * activation(c), the
\* second is the memory c = f * c_tm1 + i * candidate that continues the
\* second state it read.  The scan of a call ends with these states.
C15_StepReturnsStates ==
    LET \* the input of one step: a timeslice of the preprocessed input, all ones
        StepInput(l, rows) ==
            ones(rows, IF l.implementation = 0 THEN Units * nGates(l.kind) ELSE InputDim)
    IN
    CallDone =>
        /\ Len(states) = (IF layer.kind = "LSTM" THEN 2 ELSE 1)
        /\ Len(ret.final) = Len(states)
        /\ \A i \in 1 .. ret.xshape[1] : ret.outputs[i][ret.xshape[2]] = ret.final[1][i]
        /\ \A x \in {StepInput(layer, ret.xshape[1])} :
           \A st \in {[n \in 1 .. Len(ret.final) |-> StT(ret.final[n])]} :
           \A r \in {step(layer, x, st \o ret.constants)} :
                /\ r.output = r.states[1]
                /\ Len(r.states) = Len(states)
                /\ layer.kind = "LSTM" =>
                    \A z \in {LSTM_pre(layer, x, st[1].t, ret.constants[1].masks,
                                       ret.constants[2].masks)} :
                    \A r0 \in {step(layer, x,
                                    <<st[1], StT(zeros(ret.xshape[1], Units))>>
                                        \o ret.constants)} :
                        /\ r.states[1] = mul2(map2(recurrent_activation, z[4]),
                                              map2(activation, r.states[2]))
                        /\ r.states[2] = add2(mul2(map2(recurrent_activation, z[2]), st[2].t),
                                              r0.states[2])

\* an LSTM call over the longest sequence that ends with h and c different
\* and both non-zero
C15_Witness ==
    /\ CallDone /\ layer.kind = "LSTM" /\ ret.xshape[2] = MaxT
    /\ Len(ret.final) = 2 /\ ret.final[1] # ret.final[2]
    /\ ~IsZero(<<ret.final[1]>>) /\ ~IsZero(<<ret.final[2]>>)

\* ------------------------------------------- attention and padded positions
\* C16: in a step with a context mask every masked position has attention
\* weight 0, the weights of the unmasked positions sum to 1, and appending a
\* further padded position to the context changes neither the weights of the
\* positions already there nor ctx_.
C16_MaskedWeightZero ==
    LET \* the context and its mask with one more padded position at the end
        AppendPadding(context) ==
            [n \in 1 .. Len(context) |->
                Append(context[n], [d \in 1 .. ContextDim |-> 0])]
        AppendMasked(mask) == [n \in 1 .. Len(mask) |-> Append(mask[n], 0)]
    IN
    (AttStepDone /\ ~att.given_mask.none) =>
        /\ \A n \in 1 .. BatchSize :
            LET P == 1 .. Len(att.constants.context[n])
                a == att.alphas[n]
                m == att.constants.mask_context[n]
            IN  /\ \A i \in P : m[i] = 0 => a.num[i] = 0
                /\ SumSeq([i \in P |-> m[i] * a.num[i]]) = a.den
        /\ \A longer \in {att_get_constants(
                            AppendPadding(att.constants.context),
                            [none |-> FALSE, m |-> AppendMasked(att.given_mask.m)])} :
           \A r \in {att_step(layer, att.x, att.h_tm1, att.c_tm1, longer)} :
           \A n \in 1 .. BatchSize :
                /\ SameRow(att.ctx_[n], att.alphas[n].den, r.ctx_[n], r.alphas[n].den)
                /\ \A i \in 1 .. Len(att.alphas[n].num) :
                    att.alphas[n].num[i] * r.alphas[n].den
                        = r.alphas[n].num[i] * att.alphas[n].den
====
